---- MODULE Spec2Model ----
(***************************************************************************)
(* A model of photobooth.py: the PictureList file counter, the controller  *)
(* loop of Photobooth.run with its event dispatch, the capture session of  *)
(* Photobooth.take_picture and teardown.                                   *)
(*                                                                         *)
(* Time is counted in ticks; TicksPerSecond ticks make one second.  A path *)
(* is a record [base, digits]: the basename and the digits that follow it  *)
(* (the suffix ".jpg" is the same for every file of the program).          *)
(***************************************************************************)
EXTENDS Integers, Sequences, FiniteSets, TLC

(* ------------------------------ bounds -------------------------------- *)

(* ticks in a second: the resolution of the clock *)
TicksPerSecond == 2
(* pending events the display holds at most *)
MaxQueue == 2
(* events delivered in a run *)
MaxEvents == 2
(* exceptions raised by the camera and the idle screen, and captures slower
   than a second, in a run *)
MaxFaults == 3
MaxSessionFaults == 8
(* calls of get_next *)
MaxNext == 3

(* -------------------------- configuration ----------------------------- *)

gpio_shutdown_channel == 24
gpio_trigger_channel == 18
gpio_lamp_channel == 23
pose_time == 3
display_time == 10
slideshow_display_time == 5

(* idle_slideshow = True: run always takes _run_slideshow *)
idle_slideshow == TRUE
count_width == 5

picture_basename == "processed"
original_basename == "original"

Seconds(n) == n * TicksPerSecond

(* sleep(0.5) of teardown *)
HalfSecond == TicksPerSecond \div 2

(* ---------------------------- PictureList ----------------------------- *)

RECURSIVE Str(_)
(* str(count): the decimal digits of a non-negative integer *)
Str(n) == IF n < 10 THEN <<n>> ELSE Append(Str(n \div 10), n % 10)

RECURSIVE Zfill(_, _)
(* str.zfill(w): zeros on the left up to width w, never a cut *)
Zfill(ds, w) == IF Len(ds) >= w THEN ds ELSE Zfill(<<0>> \o ds, w)

RECURSIVE ParseInt(_)
(* int(digits) *)
ParseInt(ds) == IF Len(ds) = 0 THEN 0 ELSE 10 * ParseInt(SubSeq(ds, 1, Len(ds) - 1)) + ds[Len(ds)]

RECURSIVE StrLess(_, _)
(* the order of Python strings that list.sort uses, on digit strings *)
StrLess(a, b) ==
    IF Len(a) = 0 THEN Len(b) > 0
    ELSE IF Len(b) = 0 THEN FALSE
    ELSE IF a[1] # b[1] THEN a[1] < b[1]
    ELSE StrLess(Tail(a), Tail(b))

(* glob(basename + "[0-9]" * count_width + suffix) over a directory *)
Glob(dir, basename) ==
    {f \in dir : f.base = basename /\ Len(f.digits) = count_width}

LastSortedMut(pictures) ==
    CHOOSE p \in pictures : \A q \in pictures : q = p \/ StrLess(p.digits, q.digits)

(* pictures.sort(); pictures[-1] *)
LastSorted(pictures) ==
    CHOOSE p \in pictures : \A q \in pictures : q = p \/ StrLess(q.digits, p.digits)

(* PictureList.__init__: the counter after the scan of the directory *)
InitCounter(dir, basename) ==
    LET pictures == Glob(dir, basename)
    IN  IF pictures = {} THEN 0 ELSE ParseInt(LastSorted(pictures).digits)

(* PictureList.get *)
Get(basename, count) == [base |-> basename, digits |-> Zfill(Str(count), count_width)]

(* -------------------------- assemble_pictures ------------------------- *)

image_size == <<2352, 1568>>
outer_border == 50
inner_border == 20

(* thumb_box: the quadrant, half of the composite rounded down *)
ThumbBox(size) == <<size[1] \div 2, size[2] \div 2>>

(* thumb_size: the quadrant less the outer and the inner border *)
ThumbSize(size) ==
    <<ThumbBox(size)[1] - outer_border - inner_border,
      ThumbBox(size)[2] - outer_border - inner_border>>

Max(a, b) == IF a >= b THEN a ELSE b

(* img.thumbnail(box): the image is left as it is when it fits; else its
   sides are scaled by one factor, rounded down and at least 1, until it
   fits the box *)
Thumbnail(size, box) ==
    LET x1 == IF size[1] > box[1] THEN box[1] ELSE size[1]
        y1 == IF size[1] > box[1] THEN Max((size[2] * box[1]) \div size[1], 1) ELSE size[2]
        x2 == IF y1 > box[2] THEN Max((x1 * box[2]) \div y1, 1) ELSE x1
        y2 == IF y1 > box[2] THEN box[2] ELSE y1
    IN  <<x2, y2>>

(* the offset of image i, measured from the middle of the cross outwards *)
OffsetMut(i, box, size) ==
    << IF i \in {0, 2} THEN box[1] - inner_border - size[1] ELSE box[1] + inner_border,
       IF i \in {0, 1} THEN box[2] - inner_border - size[2] ELSE box[2] - inner_border >>

Offset(i, box, size) ==
    << IF i \in {0, 2} THEN box[1] - inner_border - size[1] ELSE box[1] + inner_border,
       IF i \in {0, 1} THEN box[2] - inner_border - size[2] ELSE box[2] + inner_border >>

(* output_image.paste(img, offset): the rectangle image i covers, the
   right and the bottom edge excluded *)
Paste(i, canvas, size) ==
    LET img == Thumbnail(size, ThumbSize(canvas))
        offset == Offset(i, ThumbBox(canvas), img)
    IN  [left |-> offset[1], top |-> offset[2],
         right |-> offset[1] + img[1], bottom |-> offset[2] + img[2]]

(* ---------------------------- temp files ------------------------------ *)

(* a file of tmp_dir: the part of its name before and after the first
   underscore, and its extension *)
TempFile(stem, rest, ext) == [stem |-> stem, rest |-> rest, ext |-> ext]

(* tmp_dir + "photobooth_preview.jpg" *)
PreviewFile == TempFile("photobooth", "preview", "jpg")

(* glob(tmp_dir + "photobooth_*.jpg") *)
TempGlob(files) == {f \in files : f.stem = "photobooth" /\ f.ext = "jpg"}

(* ------------------------------ events -------------------------------- *)

Keys == {"q", "c"}
(* the clicks: the left button in a corner, the right button in the
   middle of the window *)
MouseClicks == {<<1, <<0, 0>>>>, <<3, <<424, 240>>>>}

(* the event model of handle_event: type 0 shutdown, 1 key, 2 mouse, 3 GPIO *)
Events ==
    {[type |-> 0, value |-> "none"]}
    \cup {[type |-> 1, value |-> k] : k \in Keys}
    \cup {[type |-> 2, value |-> click] : click \in MouseClicks}
    \cup {[type |-> 3, value |-> c] : c \in {gpio_trigger_channel, gpio_shutdown_channel}}

IsShutdownEvent(e) ==
    \/ e.type = 0
    \/ e.type = 1 /\ e.value = "q"
    \/ e.type = 3 /\ e.value = gpio_shutdown_channel

(* handle_keypress: what the key makes the controller do *)
HandleKeypress(key) ==
    IF key = "q" THEN "teardown" ELSE IF key = "c" THEN "take_picture" ELSE "return"

(* handle_mousebutton with the call of take_picture left in *)
HandleMousebuttonMut(key, pos) == IF key = 1 THEN "take_picture" ELSE "return"

(* handle_mousebutton: the click only prints *)
HandleMousebutton(key, pos) == "return"

(* handle_gpio_event *)
HandleGpioEvent(channel) ==
    IF channel = gpio_trigger_channel THEN "take_picture"
    ELSE IF channel = gpio_shutdown_channel THEN "teardown"
    ELSE "return"

(* handle_event: the call the event is dispatched to *)
HandleEvent(e) ==
    IF e.type = 0 THEN "teardown"
    ELSE IF e.type = 1 THEN HandleKeypress(e.value)
    ELSE IF e.type = 2 THEN HandleMousebutton(e.value[1], e.value[2])
    ELSE IF e.type = 3 THEN HandleGpioEvent(e.value)
    ELSE "return"

(* ---------------------------- exceptions ------------------------------ *)

CameraMessages == {"camera busy", "no camera"}
GivingUpMessage == "Giving up! Please start over!"
SeriousErrorMessage == "SERIOUS ERROR!"

NoExc == [kind |-> "none", message |-> "", recoverable |-> FALSE]
CameraException(msg, rec) == [kind |-> "CameraException", message |-> msg, recoverable |-> rec]
OtherException == [kind |-> "Exception", message |-> "", recoverable |-> FALSE]
SystemExit == [kind |-> "SystemExit", message |-> "", recoverable |-> FALSE]
KeyboardInterrupt == [kind |-> "KeyboardInterrupt", message |-> "", recoverable |-> FALSE]

(* what the camera can raise *)
CameraExceptions == {CameraException(m, r) : m \in CameraMessages, r \in BOOLEAN}

RunCatchesMut(e) == TRUE

RunCatchesNarrow(e) == e.kind = "CameraException"

(* run: the except clauses that handle the exception; the others re-raise *)
RunCatches(e) ==
    \/ e.kind = "CameraException"
    \/ e.kind \notin {"KeyboardInterrupt", "SystemExit"} /\ e.kind = "Exception"

(* run: the message handed to handle_exception *)
RunMessage(e) == IF e.kind = "CameraException" THEN e.message ELSE SeriousErrorMessage

(* ------------------------------- paths -------------------------------- *)

NoPath == [base |-> "", digits |-> <<>>]

(* filenames = [i for i in range(4)] *)
Placeholder(i) == [base |-> "", digits |-> <<i>>]

SecondsPerDay == 86400

(* datetime.now().strftime("%H%M%S") at tick t *)
Strftime(t) ==
    LET s == (t \div TicksPerSecond) % SecondsPerDay
    IN  Zfill(Str(s \div 3600), 2) \o Zfill(Str((s \div 60) % 60), 2) \o Zfill(Str(s % 60), 2)

(* original_basename + strftime + ".jpg", the name handed to the camera *)
OriginalFilename(t) == [base |-> original_basename, digits |-> Strftime(t)]

(* assemble_pictures: picture_basename + strftime + ".jpg" *)
OutputFilename(t) == [base |-> picture_basename, digits |-> Strftime(t)]

(* camera.take_picture(filename) returns the name of the file it wrote *)
CameraTakePicture(filename) == filename

StoreFilenameMut(fs, i, name) == [fs EXCEPT ![1] = name]

(* filenames[x] = ... (Python counts from 0, the sequence from 1) *)
StoreFilename(fs, i, name) == [fs EXCEPT ![i + 1] = name]

(* ------------------------------ timing -------------------------------- *)

PadSleepMut(toc) == IF toc < Seconds(1) THEN Seconds(1) ELSE 0

(* if toc < 1.0: sleep(1.0 - toc) *)
PadSleep(toc) == IF toc < Seconds(1) THEN Seconds(1) - toc ELSE 0

(* how long one call of camera.take_picture can take *)
CaptureDurations == {1, TicksPerSecond, TicksPerSecond + 1}

(* how long it takes camera.take_picture to raise *)
FailureDurations == {1}

(* ------------------------------ screen -------------------------------- *)

Screen(kind, msg, num, path) == [kind |-> kind, msg |-> msg, num |-> num, path |-> path]
Message(msg) == Screen("message", msg, 0, NoPath)
Blank == Screen("clear", "", 0, NoPath)

(* ------------------------------- state -------------------------------- *)

VARIABLES
    pc,                 \* where the controller is
    queue,              \* the display's pending events, oldest first
    inputs,             \* events the environment has delivered so far
    faults,             \* exceptions raised and slow captures so far
    lamp,               \* level of the lamp output
    screen,             \* what the display shows
    now,                \* the wall clock, in ticks
    slideTic,           \* _run_slideshow: tic
    exc,                \* the exception in flight
    exitCode,           \* the exit code of the process, -1 while it runs
    x,                  \* take_picture: the shot index
    remaining_attempts, \* take_picture: remaining_attempts
    tic,                \* take_picture: tic
    toc,                \* take_picture: toc
    filenames,          \* take_picture: filenames
    outfile,            \* take_picture: outfile
    attempts,           \* calls of camera.take_picture for the shot x
    retries,            \* error messages shown before a retry for the shot x
    captured,           \* the names the camera returned in this session
    assembled,          \* the arguments of the calls of assemble_pictures
    teardowns,          \* calls of teardown
    sessionQueued,      \* pending events that arrived during a session
    dir,                \* the picture directory when the booth was built
    counter,            \* PictureList.counter
    returned,           \* the path the last PictureList call returned
    nexts,              \* calls of get_next
    lastNext,           \* the path the last call of get_next returned
    pic_size,           \* Photobooth.pic_size, the size of the composite
    input_sizes,        \* the sizes of the four images given to assemble_pictures
    rects,              \* the rectangles assemble_pictures has pasted
    has_preview,        \* camera.has_preview()
    seconds,            \* show_counter: seconds
    counter_tic,        \* show_counter: tic
    counter_toc,        \* show_counter: toc
    counter_i,          \* show_counter: i
    numbers,            \* the numbers show_counter has overlaid, oldest first
    starts,             \* the time since tic at which each preview tick began
    display_open,       \* the display has not been torn down
    gpio_open,          \* the GPIO has not been torn down
    tempfiles,          \* the files in tmp_dir
    to_remove,          \* remove_tempfiles: the names of the glob not yet tried
    tried,              \* the names os.remove has been called with
    session_attempts,   \* calls of camera.take_picture in this session
    fault_budget        \* the faults this run can have

locals == <<x, remaining_attempts, tic, toc, filenames, outfile>>
observed == <<attempts, retries, captured, assembled, session_attempts>>
plist == <<dir, counter, returned, nexts, lastNext>>
layout == <<pic_size, input_sizes, rects>>
handles == <<display_open, gpio_open, tempfiles, to_remove, tried>>
countdown == <<has_preview, seconds, counter_tic, counter_toc, counter_i, numbers, starts>>
vars == <<pc, queue, inputs, faults, lamp, screen, now, slideTic, exc, exitCode,
          locals, observed, teardowns, sessionQueued, plist, layout, countdown, handles,
          fault_budget>>

SessionPcs == {"take_picture", "countdown", "attempt", "capture", "pad",
               "assemble", "show", "finish"}
IdlePcs == {"run", "slideshow", "poll"}
TeardownPcs == {"teardown", "teardown_lamp", "teardown_display", "teardown_gpio",
                "remove_tempfiles", "remove"}

InSession == pc \in SessionPcs

(* the names of a frame of take_picture that is not running *)
NoLocals ==
    /\ x' = 0
    /\ remaining_attempts' = 0
    /\ tic' = 0
    /\ toc' = 0
    /\ filenames' = <<>>
    /\ outfile' = NoPath

NoObserved ==
    /\ attempts' = 0
    /\ retries' = 0
    /\ captured' = <<>>
    /\ assembled' = <<>>
    /\ session_attempts' = 0

(* the state when main has built the Photobooth *)
Init ==
    /\ pc = "main"
    /\ queue = <<>>
    /\ inputs = 0
    /\ faults = 0
    /\ lamp = 0
    /\ screen = Blank
    /\ now = 0
    /\ slideTic = 0
    /\ exc = NoExc
    /\ exitCode = -1
    /\ x = 0
    /\ remaining_attempts = 0
    /\ tic = 0
    /\ toc = 0
    /\ filenames = <<>>
    /\ outfile = NoPath
    /\ attempts = 0
    /\ retries = 0
    /\ captured = <<>>
    /\ assembled = <<>>
    /\ teardowns = 0
    /\ sessionQueued = 0
    /\ dir = {}
    /\ counter = InitCounter(dir, picture_basename)
    /\ returned = NoPath
    /\ nexts = 0
    /\ lastNext = NoPath
    /\ pic_size = image_size
    /\ input_sizes = <<>>
    /\ rects = <<>>
    /\ has_preview = TRUE
    /\ seconds = pose_time
    /\ counter_tic = 0
    /\ counter_toc = 0
    /\ counter_i = 0
    /\ numbers = <<>>
    /\ starts = <<>>
    /\ display_open = TRUE
    /\ gpio_open = TRUE
    /\ tempfiles = {}
    /\ to_remove = {}
    /\ tried = {}
    /\ session_attempts = 0
    /\ fault_budget = MaxFaults

(* --------------------------- the environment -------------------------- *)

(* handle_gpio calling handle_gpio_event itself, in the thread of the
   callback, instead of display.trigger_event *)
TriggerEventMut(e) ==
    /\ pc # "exited"
    /\ inputs < MaxEvents
    /\ Len(queue) < MaxQueue
    /\ inputs' = inputs + 1
    /\ IF e.type = 3
       THEN /\ pc' = HandleGpioEvent(e.value)
            /\ UNCHANGED <<queue, sessionQueued>>
       ELSE /\ queue' = Append(queue, e)
            /\ sessionQueued' = IF pc \in {"take_picture", "countdown", "attempt", "capture",
                                            "pad", "assemble", "show", "finish"}
                                 THEN sessionQueued + 1 ELSE sessionQueued
            /\ UNCHANGED pc
    /\ UNCHANGED <<faults, lamp, screen, now, slideTic, exc, exitCode,
                   locals, observed, teardowns, plist, fault_budget, layout, countdown, handles>>

(* display.trigger_event from handle_gpio, and the key, mouse and quit
   events of the window: the event joins the pending events *)
TriggerEvent(e) ==
    /\ pc # "exited"
    /\ inputs < MaxEvents
    /\ Len(queue) < MaxQueue
    /\ queue' = Append(queue, e)
    /\ inputs' = inputs + 1
    /\ sessionQueued' = IF InSession THEN sessionQueued + 1 ELSE sessionQueued
    /\ UNCHANGED <<pc, faults, lamp, screen, now, slideTic, exc, exitCode,
                   locals, observed, teardowns, plist, fault_budget, layout, countdown, handles>>

(* the process has ended: its memory is gone, the outputs stay as they
   were left *)
Exited(code) ==
    /\ pc' = "exited"
    /\ exitCode' = code
    /\ queue' = <<>>
    /\ sessionQueued' = 0
    /\ exc' = NoExc
    /\ slideTic' = 0
    /\ NoLocals
    /\ NoObserved
    /\ to_remove' = {}
    /\ UNCHANGED <<inputs, faults, lamp, screen, now, teardowns, plist, fault_budget, layout, countdown,
                   display_open, gpio_open, tempfiles, tried>>

(* ------------------------------ main, run ----------------------------- *)

(* clear_event_queue: every pending event is taken and dropped *)
ClearEventQueue == <<>>

(* main: photobooth.clear_event_queue(), then photobooth.run() *)
Main ==
    /\ pc = "main"
    /\ queue' = ClearEventQueue
    /\ sessionQueued' = 0
    /\ pc' = "run"
    /\ UNCHANGED <<inputs, faults, lamp, screen, now, slideTic, exc, exitCode,
                   locals, observed, teardowns, plist, fault_budget, layout, countdown, handles>>

(* run with the lamp enabled once, before the loop, not in it: the blank
   screen is the screen of the first pass *)
RunMut ==
    /\ pc = "run"
    /\ lamp' = IF screen = Blank THEN 1 ELSE lamp
    /\ pc' = (IF idle_slideshow THEN "slideshow" ELSE "plain")
    /\ UNCHANGED <<queue, inputs, faults, screen, now, slideTic, exc, exitCode,
                   locals, observed, teardowns, sessionQueued, plist, fault_budget, layout, countdown,
                   handles>>

(* run: enable the lamp and select the idle screen *)
Run ==
    /\ pc = "run"
    /\ lamp' = 1
    /\ pc' = (IF idle_slideshow THEN "slideshow" ELSE "plain")
    /\ UNCHANGED <<queue, inputs, faults, screen, now, slideTic, exc, exitCode,
                   locals, observed, teardowns, sessionQueued, plist, fault_budget, layout, countdown, handles>>

(* a call of the idle loop raises: camera.set_idle a CameraException, the
   display or the slideshow any other exception *)
IdleRaises(e) ==
    /\ pc = "slideshow"
    /\ faults < fault_budget
    /\ faults' = faults + 1
    /\ exc' = e
    /\ pc' = "raised"
    /\ UNCHANGED <<queue, inputs, lamp, screen, now, slideTic, exitCode,
                   locals, observed, teardowns, sessionQueued, plist, fault_budget, layout, countdown, handles>>

(* _run_slideshow: set_idle, display_next, tic = time() *)
RunSlideshow ==
    /\ pc = "slideshow"
    /\ screen' = Screen("slideshow", "Press the button!", 0, NoPath)
    /\ slideTic' = now
    /\ pc' = "poll"
    /\ UNCHANGED <<queue, inputs, faults, lamp, now, exc, exitCode,
                   locals, observed, teardowns, sessionQueued, plist, fault_budget, layout, countdown, handles>>

(* _run_slideshow: the frame has been shown for slideshow_display_time *)
SlideshowNext ==
    /\ pc = "poll"
    /\ queue = <<>>
    /\ now - slideTic >= Seconds(slideshow_display_time)
    /\ pc' = "slideshow"
    /\ UNCHANGED <<queue, inputs, faults, lamp, screen, now, slideTic, exc,
                   exitCode, locals, observed, teardowns, sessionQueued, plist, fault_budget, layout, countdown, handles>>

(* where handle_event returns to: the polling loop of _run_slideshow *)
AfterEvent == "poll"

(* check_and_handle_events: the oldest pending event is
   taken and handle_event calls teardown, take_picture or returns *)
Dispatch ==
    /\ pc = "poll"
    /\ queue # <<>>
    /\ queue' = Tail(queue)
    /\ sessionQueued' = IF sessionQueued = Len(queue) THEN sessionQueued - 1 ELSE sessionQueued
    /\ LET call == HandleEvent(Head(queue))
       IN  pc' = IF call = "return" THEN AfterEvent ELSE call
    /\ UNCHANGED <<inputs, faults, lamp, screen, now, slideTic, exc, exitCode,
                   locals, observed, teardowns, plist, fault_budget, layout, countdown, handles>>

(* teardown: display.clear, show_message, apply *)
Teardown ==
    /\ pc = "teardown"
    /\ screen' = Message("Shutting down...")
    /\ teardowns' = teardowns + 1
    /\ pc' = "teardown_lamp"
    /\ UNCHANGED <<queue, inputs, faults, lamp, now, slideTic, exc, exitCode,
                   locals, observed, sessionQueued, plist, fault_budget, layout, countdown, handles>>

(* teardown: gpio.set_output(lamp_channel, 0), sleep(0.5) *)
TeardownLamp ==
    /\ pc = "teardown_lamp"
    /\ lamp' = 0
    /\ now' = now + HalfSecond
    /\ pc' = "teardown_display"
    /\ UNCHANGED <<queue, inputs, faults, screen, slideTic, exc, exitCode,
                   locals, observed, teardowns, sessionQueued, plist, fault_budget, layout, countdown,
                   handles>>

(* teardown: display.teardown() *)
TeardownDisplay ==
    /\ pc = "teardown_display"
    /\ display_open' = FALSE
    /\ pc' = "teardown_gpio"
    /\ UNCHANGED <<queue, inputs, faults, lamp, screen, now, slideTic, exc, exitCode,
                   locals, observed, teardowns, sessionQueued, plist, fault_budget, layout, countdown,
                   gpio_open, tempfiles, to_remove, tried>>

(* teardown: gpio.teardown() *)
TeardownGpio ==
    /\ pc = "teardown_gpio"
    /\ gpio_open' = FALSE
    /\ pc' = "remove_tempfiles"
    /\ UNCHANGED <<queue, inputs, faults, lamp, screen, now, slideTic, exc, exitCode,
                   locals, observed, teardowns, sessionQueued, plist, fault_budget, layout, countdown,
                   display_open, tempfiles, to_remove, tried>>

(* remove_tempfiles: glob(tmp_dir + "photobooth_*.jpg") *)
RemoveTempfiles ==
    /\ pc = "remove_tempfiles"
    /\ to_remove' = TempGlob(tempfiles)
    /\ pc' = "remove"
    /\ UNCHANGED <<queue, inputs, faults, lamp, screen, now, slideTic, exc, exitCode,
                   locals, observed, teardowns, sessionQueued, plist, fault_budget, layout, countdown,
                   display_open, gpio_open, tempfiles, tried>>

(* remove_tempfiles without the try: the OSError leaves teardown *)
RemoveMut(filename, ok) ==
    /\ pc = "remove"
    /\ filename \in to_remove
    /\ to_remove' = to_remove \ {filename}
    /\ tried' = tried \cup {filename}
    /\ IF ok
       THEN tempfiles' = tempfiles \ {filename} /\ UNCHANGED <<pc, exc>>
       ELSE pc' = "raised" /\ exc' = OtherException /\ UNCHANGED tempfiles
    /\ UNCHANGED <<queue, inputs, faults, lamp, screen, now, slideTic, exitCode,
                   locals, observed, teardowns, sessionQueued, plist, fault_budget, layout, countdown,
                   display_open, gpio_open>>

(* remove_tempfiles: os.remove(filename) removes the file, or raises an
   OSError that is passed over *)
Remove(filename, ok) ==
    /\ pc = "remove"
    /\ filename \in to_remove
    /\ to_remove' = to_remove \ {filename}
    /\ tried' = tried \cup {filename}
    /\ tempfiles' = IF ok THEN tempfiles \ {filename} ELSE tempfiles
    /\ UNCHANGED <<pc, queue, inputs, faults, lamp, screen, now, slideTic, exc, exitCode,
                   locals, observed, teardowns, sessionQueued, plist, fault_budget, layout, countdown,
                   display_open, gpio_open>>

(* teardown: exit(0) raises SystemExit *)
TeardownExit ==
    /\ pc = "remove"
    /\ to_remove = {}
    /\ exc' = SystemExit
    /\ pc' = "raised"
    /\ UNCHANGED <<queue, inputs, faults, lamp, screen, now, slideTic, exitCode,
                   locals, observed, teardowns, sessionQueued, plist, fault_budget, layout, countdown,
                   handles>>

(* handle_exception: the error message, shown for 3 seconds *)
ErrorScreen(msg) == Screen("error", msg, 0, NoPath)

(* run: an exception reaches the try of run: it is shown by
   handle_exception and the loop goes on, or it is re-raised and the
   process ends *)
RunExcept ==
    /\ pc = "raised"
    /\ IF RunCatches(exc)
       THEN /\ screen' = ErrorScreen(RunMessage(exc))
            /\ now' = now + Seconds(3)
            /\ pc' = "run"
            /\ exc' = NoExc
            /\ NoLocals
            /\ NoObserved
            /\ UNCHANGED <<queue, inputs, faults, lamp, slideTic, exitCode,
                           teardowns, sessionQueued, plist, fault_budget, layout, countdown, handles>>
       ELSE Exited(IF exc.kind = "SystemExit" THEN 0 ELSE 1)

(* Ctrl-C while run is running: KeyboardInterrupt is raised where the
   controller is and reaches the try of run *)
Interrupt ==
    /\ pc \notin {"main", "raised", "exited"}
    /\ IF RunCatches(KeyboardInterrupt)
       THEN /\ pc' = "raised"
            /\ exc' = KeyboardInterrupt
            /\ UNCHANGED <<queue, inputs, faults, lamp, screen, now, slideTic, exitCode,
                           locals, observed, teardowns, sessionQueued, plist, fault_budget, layout, countdown, handles>>
       ELSE Exited(1)

(* --------------------------- take_picture ----------------------------- *)

(* take_picture, up to the loop over the shots: lamp off, the pose
   message for 2 seconds, filenames = [0, 1, 2, 3] *)
TakePicture ==
    /\ pc = "take_picture"
    /\ lamp' = 0
    /\ screen' = Message("POSE!\n\nFour pictures...")
    /\ now' = now + Seconds(2)
    /\ x' = 0
    /\ filenames' = [i \in 1..4 |-> Placeholder(i - 1)]
    /\ remaining_attempts' = 0
    /\ tic' = 0
    /\ toc' = 0
    /\ outfile' = NoPath
    /\ NoObserved
    /\ pc' = "countdown"
    /\ UNCHANGED <<queue, inputs, faults, slideTic, exc, exitCode,
                   teardowns, sessionQueued, plist, fault_budget, layout, countdown, handles>>

(* for x in range(4): show_counter(pose_time); remaining_attempts = 3 *)
ShowCounter ==
    /\ pc = "countdown"
    /\ screen' = Screen("counter", "", 1, NoPath)
    /\ now' = now + Seconds(pose_time)
    /\ tempfiles' = IF has_preview THEN tempfiles \cup {PreviewFile} ELSE tempfiles
    /\ remaining_attempts' = 3
    /\ attempts' = 0
    /\ retries' = 0
    /\ pc' = "attempt"
    /\ UNCHANGED <<queue, inputs, faults, lamp, slideTic, exc, exitCode,
                   x, tic, toc, filenames, outfile, captured, session_attempts, assembled,
                   teardowns, sessionQueued, plist, fault_budget, layout, countdown,
                   display_open, gpio_open, to_remove, tried>>

(* remaining_attempts = remaining_attempts - 1, left out *)
AttemptsLeftMut(left) == left

(* remaining_attempts = remaining_attempts - 1 *)
AttemptsLeft(left) == left - 1

(* while remaining_attempts > 0: one less, the smile message, tic = time() *)
Attempt ==
    /\ pc = "attempt"
    /\ remaining_attempts > 0
    /\ remaining_attempts' = AttemptsLeft(remaining_attempts)
    /\ screen' = Screen("smile", "SMILE!\nPhoto of 4", x + 1, NoPath)
    /\ tic' = now
    /\ pc' = "capture"
    /\ UNCHANGED <<queue, inputs, faults, lamp, now, slideTic, exc, exitCode,
                   x, toc, filenames, outfile, observed, teardowns, sessionQueued, plist, fault_budget, layout, countdown, handles>>

(* camera.take_picture returns after d ticks: the name is stored and the
   attempts of this shot are over (remaining_attempts = 0) *)
CaptureReturns(d) ==
    /\ pc = "capture"
    /\ d > Seconds(1) => faults < fault_budget
    /\ faults' = IF d > Seconds(1) THEN faults + 1 ELSE faults
    /\ LET name == CameraTakePicture(OriginalFilename(now))
       IN  /\ filenames' = StoreFilename(filenames, x, name)
           /\ captured' = Append(captured, name)
    /\ remaining_attempts' = 0
    /\ attempts' = attempts + 1
    /\ session_attempts' = session_attempts + 1
    /\ now' = now + d
    /\ pc' = "pad"
    /\ UNCHANGED <<queue, inputs, lamp, screen, slideTic, exc, exitCode,
                   x, tic, toc, outfile, retries, assembled, teardowns, sessionQueued, plist, fault_budget, layout, countdown, handles>>

RetryAllowedMut(e, left) == e.recoverable

RetryUnclassified(e, left) == left > 0

(* except CameraException as e: a recoverable error with attempts left is
   shown and retried *)
RetryAllowed(e, left) == e.recoverable /\ left > 0

EscalatedMut(e) == e

(* what take_picture raises when it does not retry: the error itself when
   it is not recoverable, the giving up error when it is *)
Escalated(e) == IF e.recoverable THEN CameraException(GivingUpMessage, FALSE) ELSE e

(* camera.take_picture raises e after d ticks *)
CaptureRaises(e, d) ==
    /\ pc = "capture"
    /\ faults < fault_budget
    /\ faults' = faults + 1
    /\ attempts' = attempts + 1
    /\ session_attempts' = session_attempts + 1
    /\ IF RetryAllowed(e, remaining_attempts)
       THEN /\ screen' = Message(e.message)
            /\ now' = now + d + Seconds(5)
            /\ retries' = retries + 1
            /\ pc' = "pad"
            /\ UNCHANGED exc
       ELSE /\ now' = now + d
            /\ exc' = Escalated(e)
            /\ pc' = "raised"
            /\ UNCHANGED <<screen, retries>>
    /\ UNCHANGED <<queue, inputs, lamp, slideTic, exitCode,
                   locals, captured, assembled, teardowns, sessionQueued, plist, fault_budget, layout, countdown, handles>>

(* where take_picture goes on after the pad, with a countdown before a
   retry as well *)
AfterPadMut(left, shot) ==
    IF left > 0 \/ shot < 3 THEN "countdown" ELSE "assemble"

(* where take_picture goes on after the pad: the while loop again, the
   next pass of the for loop, or the code after the for loop *)
AfterPad(left, shot) ==
    IF left > 0 THEN "attempt" ELSE IF shot < 3 THEN "countdown" ELSE "assemble"

(* toc = time() - tic; the pad; then the next attempt, the next shot or,
   after the fourth shot, the assembly *)
Pad ==
    /\ pc = "pad"
    /\ toc' = now - tic
    /\ now' = now + PadSleep(toc')
    /\ pc' = AfterPad(remaining_attempts, x)
    /\ x' = IF remaining_attempts = 0 /\ x < 3 THEN x + 1 ELSE x
    /\ UNCHANGED <<queue, inputs, faults, lamp, screen, slideTic, exc, exitCode,
                   remaining_attempts, tic, filenames, outfile, observed,
                   teardowns, sessionQueued, plist, fault_budget, layout, countdown, handles>>

(* the wait message and assemble_pictures(filenames) *)
AssemblePictures ==
    /\ pc = "assemble"
    /\ screen' = Message("Please wait!")
    /\ assembled' = Append(assembled, filenames)
    /\ outfile' = OutputFilename(now)
    /\ pc' = "show"
    /\ UNCHANGED <<queue, inputs, faults, lamp, now, slideTic, exc, exitCode,
                   x, remaining_attempts, tic, toc, filenames, attempts, retries, captured, session_attempts,
                   teardowns, sessionQueued, plist, fault_budget, layout, countdown, handles>>

(* assemble_pictures raises: a source file cannot be read, the output
   cannot be written *)
AssembleRaises ==
    /\ pc = "assemble"
    /\ screen' = Message("Please wait!")
    /\ assembled' = Append(assembled, filenames)
    /\ exc' = OtherException
    /\ pc' = "raised"
    /\ UNCHANGED <<queue, inputs, faults, lamp, now, slideTic, exitCode,
                   locals, attempts, retries, captured, session_attempts, teardowns, sessionQueued, plist, fault_budget, layout, countdown, handles>>

(* the composite is shown for display_time *)
ShowPicture ==
    /\ pc = "show"
    /\ screen' = Screen("picture", "", 0, outfile)
    /\ now' = now + Seconds(display_time)
    /\ pc' = "finish"
    /\ UNCHANGED <<queue, inputs, faults, lamp, slideTic, exc, exitCode,
                   locals, observed, teardowns, sessionQueued, plist, fault_budget, layout, countdown, handles>>

(* lamp on, clear_event_queue, return to the idle loop *)
Finish ==
    /\ pc = "finish"
    /\ lamp' = 1
    /\ queue' = ClearEventQueue
    /\ sessionQueued' = 0
    /\ NoLocals
    /\ NoObserved
    /\ pc' = AfterEvent
    /\ UNCHANGED <<inputs, faults, screen, now, slideTic, exc, exitCode,
                   teardowns, plist, fault_budget, layout, countdown, handles>>

(* --------------------------- specification ---------------------------- *)

Next ==
    \/ \E e \in Events : TriggerEvent(e)
    \/ Interrupt
    \/ Main
    \/ Run
    \/ \E e \in CameraExceptions \cup {OtherException} : IdleRaises(e)
    \/ RunSlideshow
    \/ SlideshowNext
    \/ Dispatch
    \/ Teardown
    \/ TeardownLamp
    \/ TeardownDisplay
    \/ TeardownGpio
    \/ RemoveTempfiles
    \/ \E filename \in tempfiles, ok \in BOOLEAN : Remove(filename, ok)
    \/ TeardownExit
    \/ RunExcept
    \/ TakePicture
    \/ ShowCounter
    \/ Attempt
    \/ \E d \in CaptureDurations : CaptureReturns(d)
    \/ \E e \in CameraExceptions, d \in FailureDurations : CaptureRaises(e, d)
    \/ Pad
    \/ AssemblePictures
    \/ AssembleRaises
    \/ ShowPicture
    \/ Finish

Spec == Init /\ [][Next]_vars

(* ------------------------ PictureList on its own ---------------------- *)

(* files a picture directory can hold when the booth starts: numbered
   pictures of the basename, a composite named after the time of day, a
   numbered picture of the other basename *)
CandidateFiles ==
    {Get(picture_basename, n) : n \in {1, 7, 10, 99999}}
    \cup {OutputFilename(0), Get(original_basename, 12)}

InitPictureList ==
    /\ pc = "main"
    /\ queue = <<>>
    /\ inputs = 0
    /\ faults = 0
    /\ lamp = 0
    /\ screen = Blank
    /\ now = 0
    /\ slideTic = 0
    /\ exc = NoExc
    /\ exitCode = -1
    /\ x = 0
    /\ remaining_attempts = 0
    /\ tic = 0
    /\ toc = 0
    /\ filenames = <<>>
    /\ outfile = NoPath
    /\ attempts = 0
    /\ retries = 0
    /\ captured = <<>>
    /\ assembled = <<>>
    /\ teardowns = 0
    /\ sessionQueued = 0
    /\ dir \in SUBSET CandidateFiles
    /\ counter = InitCounter(dir, picture_basename)
    /\ returned = NoPath
    /\ nexts = 0
    /\ lastNext = NoPath
    /\ pic_size = image_size
    /\ input_sizes = <<>>
    /\ rects = <<>>
    /\ has_preview = FALSE
    /\ seconds = pose_time
    /\ counter_tic = 0
    /\ counter_toc = 0
    /\ counter_i = 0
    /\ numbers = <<>>
    /\ starts = <<>>
    /\ display_open = TRUE
    /\ gpio_open = TRUE
    /\ tempfiles = {}
    /\ to_remove = {}
    /\ tried = {}
    /\ session_attempts = 0
    /\ fault_budget = MaxFaults

(* get_next: self.counter += 1 *)
NextCounterMut(c) == (c + 1) % 100000

NextCounter(c) == c + 1

(* PictureList.get_next *)
GetNext ==
    /\ nexts < MaxNext
    /\ nexts' = nexts + 1
    /\ counter' = NextCounter(counter)
    /\ returned' = Get(picture_basename, counter')
    /\ lastNext' = returned'
    /\ UNCHANGED <<pc, queue, inputs, faults, lamp, screen, now, slideTic, exc, exitCode,
                   locals, observed, teardowns, sessionQueued, dir, fault_budget, layout, countdown, handles>>

(* PictureList.get_last *)
GetLast ==
    /\ returned' = Get(picture_basename, counter)
    /\ UNCHANGED <<pc, queue, inputs, faults, lamp, screen, now, slideTic, exc, exitCode,
                   locals, observed, teardowns, sessionQueued, dir, fault_budget, counter, nexts,
                   lastNext, layout, countdown, handles>>

(* the counts get is called with *)
Counts == {0, 3, 100000}

(* PictureList.get(count) *)
GetCount(count) ==
    /\ returned' = Get(picture_basename, count)
    /\ UNCHANGED <<pc, queue, inputs, faults, lamp, screen, now, slideTic, exc, exitCode,
                   locals, observed, teardowns, sessionQueued, dir, fault_budget, counter, nexts,
                   lastNext, layout, countdown, handles>>

NextPictureList ==
    \/ GetNext
    \/ GetLast
    \/ \E count \in Counts : GetCount(count)

SpecPictureList == InitPictureList /\ [][NextPictureList]_vars

(* --------------------- assemble_pictures on its own ------------------- *)

(* sizes of the composite: the configured one, an even and an odd small
   one, and the smallest whose thumbnails have a pixel *)
PicSizes == {image_size, <<200, 160>>, <<201, 161>>, <<143, 142>>}

(* sizes of the camera's pictures: the camera's 4752x3168, a picture
   smaller than the thumbnail, a tall and a wide strip, one pixel *)
ImageSizes == {<<4752, 3168>>, <<40, 30>>, <<100, 3000>>, <<3000, 100>>, <<1, 1>>}

InitAssemble ==
    /\ pc = "assemble"
    /\ queue = <<>>
    /\ inputs = 0
    /\ faults = 0
    /\ lamp = 0
    /\ screen = Message("Please wait!")
    /\ now = 0
    /\ slideTic = 0
    /\ exc = NoExc
    /\ exitCode = -1
    /\ x = 0
    /\ remaining_attempts = 0
    /\ tic = 0
    /\ toc = 0
    /\ filenames = <<>>
    /\ outfile = NoPath
    /\ attempts = 0
    /\ retries = 0
    /\ captured = <<>>
    /\ assembled = <<>>
    /\ teardowns = 0
    /\ sessionQueued = 0
    /\ dir = {}
    /\ counter = 0
    /\ returned = NoPath
    /\ nexts = 0
    /\ lastNext = NoPath
    /\ pic_size \in PicSizes
    /\ input_sizes \in [1..4 -> ImageSizes]
    /\ rects = <<>>
    /\ has_preview = FALSE
    /\ seconds = pose_time
    /\ counter_tic = 0
    /\ counter_toc = 0
    /\ counter_i = 0
    /\ numbers = <<>>
    /\ starts = <<>>
    /\ display_open = TRUE
    /\ gpio_open = TRUE
    /\ tempfiles = {}
    /\ to_remove = {}
    /\ tried = {}
    /\ session_attempts = 0
    /\ fault_budget = MaxFaults

(* assemble_pictures: image Len(rects) is opened, made a thumbnail and
   pasted *)
PasteImage ==
    /\ Len(rects) < 4
    /\ rects' = Append(rects, Paste(Len(rects), pic_size, input_sizes[Len(rects) + 1]))
    /\ UNCHANGED <<pc, queue, inputs, faults, lamp, screen, now, slideTic, exc, exitCode,
                   locals, observed, teardowns, sessionQueued, plist, fault_budget, pic_size, input_sizes, countdown, handles>>

NextAssemble == PasteImage

SpecAssemble == InitAssemble /\ [][NextAssemble]_vars

(* ------------------------ show_counter on its own --------------------- *)

Min(a, b) == IF a <= b THEN a ELSE b

(* the time one pass of the preview loop takes: half a second, a second,
   more than one and more than two seconds *)
PreviewDurations == {1, TicksPerSecond, TicksPerSecond + 1, 2 * TicksPerSecond + 1}

InitShowCounter ==
    /\ pc = "countdown"
    /\ queue = <<>>
    /\ inputs = 0
    /\ faults = 0
    /\ lamp = 0
    /\ screen = Message("POSE!\n\nFour pictures...")
    /\ now = 0
    /\ slideTic = 0
    /\ exc = NoExc
    /\ exitCode = -1
    /\ x = 0
    /\ remaining_attempts = 0
    /\ tic = 0
    /\ toc = 0
    /\ filenames = [k \in 1..4 |-> Placeholder(k - 1)]
    /\ outfile = NoPath
    /\ attempts = 0
    /\ retries = 0
    /\ captured = <<>>
    /\ assembled = <<>>
    /\ teardowns = 0
    /\ sessionQueued = 0
    /\ dir = {}
    /\ counter = 0
    /\ returned = NoPath
    /\ nexts = 0
    /\ lastNext = NoPath
    /\ pic_size = image_size
    /\ input_sizes = <<>>
    /\ rects = <<>>
    /\ has_preview \in BOOLEAN
    /\ seconds \in 1..pose_time
    /\ counter_tic = 0
    /\ counter_toc = 0
    /\ counter_i = 0
    /\ numbers = <<>>
    /\ starts = <<>>
    /\ display_open = TRUE
    /\ gpio_open = TRUE
    /\ tempfiles = {}
    /\ to_remove = {}
    /\ tried = {}
    /\ session_attempts = 0
    /\ fault_budget = MaxFaults

(* show_counter, up to the loop: with a preview the first preview is
   taken and shown, tic = time(), toc = time() - tic *)
EnterCounter(d) ==
    /\ pc = "countdown"
    /\ IF has_preview
       THEN /\ screen' = Screen("preview", "", 0, NoPath)
            /\ tempfiles' = tempfiles \cup {PreviewFile}
            /\ now' = now + d
            /\ counter_tic' = now'
            /\ counter_toc' = now' - counter_tic'
            /\ pc' = "counter_while"
       ELSE /\ pc' = "counter_for"
            /\ UNCHANGED <<screen, tempfiles, now, counter_tic, counter_toc>>
    /\ counter_i' = 0
    /\ UNCHANGED <<queue, inputs, faults, lamp, slideTic, exc, exitCode,
                   locals, observed, teardowns, sessionQueued, plist, fault_budget, layout,
                   has_preview, seconds, numbers, starts,
                   display_open, gpio_open, to_remove, tried>>

(* toc = min(toc + 1, time() - tic), with toc + 1 alone *)
ClampMut(t, elapsed) == t + Seconds(1)

(* toc = min(toc + 1, time() - tic), with time() - tic alone *)
ClampNone(t, elapsed) == elapsed

(* toc = min(toc + 1, time() - tic) *)
Clamp(t, elapsed) == Min(t + Seconds(1), elapsed)

(* str(seconds - int(toc)) *)
Number(s, t) == s - (t \div TicksPerSecond)

(* one pass of while toc < seconds: the preview with the number over it,
   then toc is moved on *)
PreviewTick(d) ==
    /\ pc = "counter_while"
    /\ counter_toc < Seconds(seconds)
    /\ screen' = Screen("preview", "", Number(seconds, counter_toc), NoPath)
    /\ numbers' = Append(numbers, Number(seconds, counter_toc))
    /\ starts' = Append(starts, now - counter_tic)
    /\ tempfiles' = tempfiles \cup {PreviewFile}
    /\ now' = now + d
    /\ counter_toc' = Clamp(counter_toc, now' - counter_tic)
    /\ UNCHANGED <<pc, queue, inputs, faults, lamp, slideTic, exc, exitCode,
                   locals, observed, teardowns, sessionQueued, plist, fault_budget, layout,
                   has_preview, seconds, counter_tic, counter_i,
                   display_open, gpio_open, to_remove, tried>>

(* one pass of for i in range(seconds): the number, sleep(1) *)
PlainTick ==
    /\ pc = "counter_for"
    /\ counter_i < seconds
    /\ screen' = Message("")
    /\ numbers' = Append(numbers, seconds - counter_i)
    /\ now' = now + Seconds(1)
    /\ counter_i' = counter_i + 1
    /\ UNCHANGED <<pc, queue, inputs, faults, lamp, slideTic, exc, exitCode,
                   locals, observed, teardowns, sessionQueued, plist, fault_budget, layout,
                   has_preview, seconds, counter_tic, counter_toc, starts, handles>>

(* show_counter returns: the condition of the while is false, or the
   range of the for is used up *)
CounterReturns ==
    /\ \/ pc = "counter_while" /\ ~(counter_toc < Seconds(seconds))
       \/ pc = "counter_for" /\ ~(counter_i < seconds)
    /\ pc' = "attempt"
    /\ UNCHANGED <<queue, inputs, faults, lamp, screen, now, slideTic, exc, exitCode,
                   locals, observed, teardowns, sessionQueued, plist, fault_budget, layout, countdown, handles>>

NextShowCounter ==
    \/ \E d \in PreviewDurations : EnterCounter(d)
    \/ \E d \in PreviewDurations : PreviewTick(d)
    \/ PlainTick
    \/ CounterReturns

SpecShowCounter == InitShowCounter /\ [][NextShowCounter]_vars

(* --------------------------- teardown on its own ----------------------- *)

(* files tmp_dir can hold: the preview, a picture of an earlier version
   of the booth, and two names the glob does not match *)
TempCandidates ==
    {PreviewFile, TempFile("photobooth", "00", "jpg"),
     TempFile("photobooth", "preview", "png"), TempFile("original", "00", "jpg")}

(* handle_event has called teardown from the idle loop *)
InitTeardown ==
    /\ pc = "teardown"
    /\ queue = <<>>
    /\ inputs = 0
    /\ faults = 0
    /\ lamp = 1
    /\ screen = Screen("slideshow", "Press the button!", 0, NoPath)
    /\ now = 0
    /\ slideTic = 0
    /\ exc = NoExc
    /\ exitCode = -1
    /\ x = 0
    /\ remaining_attempts = 0
    /\ tic = 0
    /\ toc = 0
    /\ filenames = <<>>
    /\ outfile = NoPath
    /\ attempts = 0
    /\ retries = 0
    /\ captured = <<>>
    /\ assembled = <<>>
    /\ teardowns = 0
    /\ sessionQueued = 0
    /\ dir = {}
    /\ counter = 0
    /\ returned = NoPath
    /\ nexts = 0
    /\ lastNext = NoPath
    /\ pic_size = image_size
    /\ input_sizes = <<>>
    /\ rects = <<>>
    /\ has_preview = TRUE
    /\ seconds = pose_time
    /\ counter_tic = 0
    /\ counter_toc = 0
    /\ counter_i = 0
    /\ numbers = <<>>
    /\ starts = <<>>
    /\ display_open = TRUE
    /\ gpio_open = TRUE
    /\ tempfiles \in SUBSET TempCandidates
    /\ to_remove = {}
    /\ tried = {}
    /\ session_attempts = 0
    /\ fault_budget = MaxFaults

NextTeardown ==
    \/ Teardown
    \/ TeardownLamp
    \/ TeardownDisplay
    \/ TeardownGpio
    \/ RemoveTempfiles
    \/ \E filename \in tempfiles, ok \in BOOLEAN : Remove(filename, ok)
    \/ TeardownExit
    \/ RunExcept

SpecTeardown == InitTeardown /\ [][NextTeardown]_vars

(* --------------------------- one session on its own -------------------- *)

(* handle_event has called take_picture from the idle loop, and the
   camera can fail in every attempt but the last of each shot *)
InitSession ==
    /\ pc = "take_picture"
    /\ queue = <<>>
    /\ inputs = 0
    /\ faults = 0
    /\ lamp = 1
    /\ screen = Screen("slideshow", "Press the button!", 0, NoPath)
    /\ now = 0
    /\ slideTic = 0
    /\ exc = NoExc
    /\ exitCode = -1
    /\ x = 0
    /\ remaining_attempts = 0
    /\ tic = 0
    /\ toc = 0
    /\ filenames = <<>>
    /\ outfile = NoPath
    /\ attempts = 0
    /\ retries = 0
    /\ captured = <<>>
    /\ assembled = <<>>
    /\ teardowns = 0
    /\ sessionQueued = 0
    /\ dir = {}
    /\ counter = 0
    /\ returned = NoPath
    /\ nexts = 0
    /\ lastNext = NoPath
    /\ pic_size = image_size
    /\ input_sizes = <<>>
    /\ rects = <<>>
    /\ has_preview = TRUE
    /\ seconds = pose_time
    /\ counter_tic = 0
    /\ counter_toc = 0
    /\ counter_i = 0
    /\ numbers = <<>>
    /\ starts = <<>>
    /\ display_open = TRUE
    /\ gpio_open = TRUE
    /\ tempfiles = {}
    /\ to_remove = {}
    /\ tried = {}
    /\ session_attempts = 0
    /\ fault_budget = MaxSessionFaults

(* the steps of the controller from the call of take_picture to the next
   poll of the idle loop *)
NextSession ==
    \/ TakePicture
    \/ ShowCounter
    \/ Attempt
    \/ \E d \in CaptureDurations : CaptureReturns(d)
    \/ \E e \in CameraExceptions, d \in FailureDurations : CaptureRaises(e, d)
    \/ Pad
    \/ AssemblePictures
    \/ AssembleRaises
    \/ ShowPicture
    \/ Finish
    \/ RunExcept
    \/ Run
    \/ RunSlideshow

(* every call returns or raises and the clock moves on: the controller
   takes its next step *)
SpecSession == InitSession /\ [][NextSession]_vars /\ WF_vars(NextSession)

(* ------------------------------- claims ------------------------------- *)

(* the shot x has been captured *)
Captured == Len(captured) = x + 1

(* the process ends in this step *)
Ends == pc' = "exited"

(* C1: the camera is called at most 3 times for a shot; a recoverable
   error with attempts left shows the message of that error and leads to
   another attempt, and when an attempt then succeeds the session goes on
   with the next shot, or with the assembly after the fourth shot, one
   error message having been shown before each retry. *)
C1_RetryWithinBudget ==
    /\ [](attempts <= 3)
    /\ [](pc = "pad" /\ Captured => retries = attempts - 1 /\ exc = NoExc)
    /\ [][\A e \in CameraExceptions, d \in FailureDurations :
            CaptureRaises(e, d) /\ e.recoverable /\ attempts < 2
            => /\ pc' = "pad"
               /\ screen' = Message(e.message)
               /\ remaining_attempts' > 0]_vars
    /\ [][pc = "pad" /\ pc' # "pad" /\ ~Ends
            => IF ~Captured THEN pc' = "attempt" /\ x' = x
               ELSE IF x < 3 THEN pc' = "countdown" /\ x' = x + 1
               ELSE pc' = "assemble"]_vars

(* a shot went through two recoverable errors and a success, and the
   session is at the countdown of the next shot *)
C1_Witness ==
    /\ pc = "countdown"
    /\ x = 1
    /\ attempts = 3
    /\ retries = 2
    /\ Len(captured) = 1

(* C2: the third recoverable error in a row for a shot raises the giving
   up error, which is not recoverable; when it is in flight the camera was
   called 3 times for the shot, no later shot was captured and
   assemble_pictures was not called, and the session is over: the next
   thing the controller does is show the message and go back to run. *)
C2_GivingUp ==
    /\ [](exc.message = GivingUpMessage
            => /\ pc = "raised"
               /\ exc = CameraException(GivingUpMessage, FALSE)
               /\ attempts = 3
               /\ retries = 2
               /\ Len(captured) = x
               /\ assembled = <<>>)
    /\ [][\A e \in CameraExceptions, d \in FailureDurations :
            CaptureRaises(e, d) /\ e.recoverable /\ attempts = 2
            => pc' = "raised" /\ exc' = CameraException(GivingUpMessage, FALSE)]_vars
    /\ [][pc = "raised" /\ exc.message = GivingUpMessage /\ pc' # "raised"
            => /\ pc' = "run"
               /\ screen' = ErrorScreen(GivingUpMessage)
               /\ assembled' = <<>>]_vars

(* the giving up error is in flight, raised at the second shot *)
C2_Witness ==
    /\ pc = "raised"
    /\ exc.message = GivingUpMessage
    /\ x = 1

(* C3: an error of the camera that is not recoverable, at any attempt,
   is raised as it is: no retry message is shown, and the next thing the
   controller does is show the message of that error and go back to run,
   without another call of the camera. *)
C3_NotRecoverableAborts ==
    /\ [][\A e \in CameraExceptions, d \in FailureDurations :
            CaptureRaises(e, d) /\ ~e.recoverable
            => /\ pc' = "raised"
               /\ exc' = e
               /\ screen' = screen
               /\ retries' = retries]_vars
    /\ [][pc = "raised" /\ exc.kind = "CameraException" /\ pc' # "raised"
            => /\ pc' = "run"
               /\ screen' = ErrorScreen(exc.message)
               /\ attempts' = 0]_vars

(* an error that is not recoverable is in flight, raised by the second
   attempt of a shot *)
C3_Witness ==
    /\ pc = "raised"
    /\ exc.kind = "CameraException"
    /\ exc.message \in CameraMessages
    /\ ~exc.recoverable
    /\ attempts = 2

(* C4: an exception other than SystemExit and KeyboardInterrupt that
   reaches run does not end the process: handle_exception shows one
   message for 3 seconds, the message of the camera error or the serious
   error message, and the controller is back at the head of run. *)
C4_Contained ==
    [][pc = "raised" /\ exc.kind \notin {"SystemExit", "KeyboardInterrupt"} /\ pc' # "raised"
        => /\ pc' = "run"
           /\ exitCode' = -1
           /\ now' = now + Seconds(3)
           /\ screen' = ErrorScreen(IF exc.kind = "CameraException"
                                    THEN exc.message ELSE SeriousErrorMessage)]_vars

(* the serious error message is on the screen and the controller is back
   at the head of run, the process running *)
C4_Witness ==
    /\ pc = "run"
    /\ screen = ErrorScreen(SeriousErrorMessage)
    /\ exitCode = -1

(* C5: when the controller is in the idle loop, no event that arrived
   during a session is pending. *)
C5_SessionEventsDiscarded == pc \in IdlePcs => sessionQueued = 0

(* C6: once run has started, a pending shutdown event leaves the pending
   events only by being dispatched to teardown (or with the process). *)
C6_NoShutdownLost ==
    [][/\ pc # "main"
       /\ ~Ends
       /\ Cardinality({i \in DOMAIN queue' : IsShutdownEvent(queue'[i])})
            < Cardinality({i \in DOMAIN queue : IsShutdownEvent(queue[i])})
       => pc' = "teardown"]_vars

(* C7: teardown runs at most once: when it has run, the controller only
   lets its SystemExit through and the process ends with code 0; no event
   is dispatched and no session starts. *)
C7_TeardownOnce ==
    /\ [](teardowns <= 1)
    /\ [](teardowns = 1 => pc \in TeardownPcs \cup {"raised", "exited"})
    /\ [](teardowns = 1 /\ pc = "raised" => exc = SystemExit)
    /\ [][teardowns = 1 /\ pc = "raised" /\ pc' # pc => pc' = "exited" /\ exitCode' = 0]_vars
    /\ [][teardowns = 1
            => \/ Ends
               \/ /\ teardowns' = 1
                  /\ pc' \in TeardownPcs \cup {"raised"}
                  /\ Len(queue') >= Len(queue)
         ]_vars

(* teardown has run while another shutdown event is pending *)
C7_Witness ==
    /\ teardowns = 1
    /\ pc = "raised"
    /\ exc = SystemExit
    /\ queue # <<>>
    /\ IsShutdownEvent(Head(queue))

(* C8: when the composite is on the screen, assemble_pictures was called
   once, with the four names the camera returned in the order of the shots,
   and the composite has another path than each of the four; the session
   then returns to the polling loop with the lamp on. *)
C8_SessionCompletes ==
    /\ [](pc \in {"show", "finish"}
            => /\ Len(captured) = 4
               /\ assembled = <<captured>>
               /\ outfile \notin {captured[i] : i \in 1..4}
               /\ outfile.base = picture_basename)
    /\ [](pc = "finish" => screen = Screen("picture", "", 0, outfile) /\ lamp = 0)
    /\ [][pc = "finish" /\ pc' # "finish" /\ ~Ends => pc' = "poll" /\ lamp' = 1]_vars

(* a session without any fault is back in the polling loop, the lamp on
   and the composite still on the screen *)
C8_Witness ==
    /\ pc = "poll"
    /\ lamp = 1
    /\ faults = 0
    /\ screen.kind = "picture"
    /\ screen.path.base = picture_basename

(* C9: after a capture that succeeded, the step to the next countdown or
   to the assembly comes at least a second after tic: the session sleeps
   1 second less the time the capture took when that was under a second,
   and not at all otherwise. *)
C9_PadToOneSecond ==
    [][pc = "pad" /\ Captured /\ pc' # "pad" /\ ~Ends
        => /\ now' - tic >= Seconds(1)
           /\ now' - now = (IF now - tic < Seconds(1) THEN Seconds(1) - (now - tic) ELSE 0)]_vars

(* a capture that took less than a second has been padded *)
C9_Witness ==
    /\ pc = "countdown"
    /\ x = 1
    /\ retries = 0
    /\ toc < Seconds(1)
    /\ now - tic = Seconds(1)

(* the largest number among the files <basename><5 digits>.jpg, 0 when
   there is none *)
LargestNumber ==
    LET ns == {ParseInt(f.digits) :
                 f \in {g \in dir : g.base = picture_basename /\ Len(g.digits) = 5}}
    IN  IF ns = {} THEN 0 ELSE CHOOSE m \in ns : \A n \in ns : n <= m

(* C10: the counter starts at the largest number among the existing
   files, and the k-th get_next returns the path of the basename with the
   number that is k larger, written with 5 digits or more and with leading
   zeros only up to 5 digits. *)
C10_GetNextNumbering ==
    /\ [](nexts = 0 => counter = LargestNumber)
    /\ [][nexts' # nexts
            => /\ nexts' = nexts + 1
               /\ counter' = counter + 1
               /\ returned'.base = picture_basename
               /\ ParseInt(returned'.digits) = LargestNumber + nexts'
               /\ Len(returned'.digits) >= 5
               /\ Len(returned'.digits) > 5 => returned'.digits[1] # 0]_vars

(* the highest existing file is 00007 and the first get_next returned
   the path numbered 00008 *)
C10_Witness ==
    /\ LargestNumber = 7
    /\ nexts = 1
    /\ returned = [base |-> picture_basename, digits |-> <<0, 0, 0, 0, 8>>]

(* C11: the counter never decreases; get_last and get(n) leave it as it
   is; get_last returns the path the most recent get_next returned, or the
   path of the initial counter when get_next has not been called. *)
C11_CounterMonotone ==
    /\ [][counter' >= counter]_vars
    /\ [][GetLast
            => /\ counter' = counter
               /\ returned' = IF nexts > 0 THEN lastNext
                               ELSE Get(picture_basename, LargestNumber)]_vars
    /\ [][(\E count \in Counts : GetCount(count)) => counter' = counter]_vars

(* the highest existing file is 00007, get_next has not been called and
   get_last has returned the path numbered 00007 *)
C11_Witness ==
    /\ LargestNumber = 7
    /\ nexts = 0
    /\ returned = Get(picture_basename, 7)

(* rectangles a and b have no pixel in common *)
Disjoint(a, b) ==
    \/ a.right <= b.left
    \/ b.right <= a.left
    \/ a.bottom <= b.top
    \/ b.bottom <= a.top

(* the pasted image i, its rectangle r, is outer_border or more from the
   edges of the composite, and inside the quadrant i that the lines
   x = cx / 2 and y = cy / 2 bound *)
InQuadrant(i, r, cx, cy) ==
    /\ r.left >= outer_border
    /\ r.top >= outer_border
    /\ r.right <= pic_size[1] - outer_border
    /\ r.bottom <= pic_size[2] - outer_border
    /\ r.left < r.right
    /\ r.top < r.bottom
    /\ IF i \in {0, 2} THEN 2 * r.right <= cx ELSE 2 * r.left >= cx
    /\ IF i \in {0, 1} THEN 2 * r.bottom <= cy ELSE 2 * r.top >= cy

(* the two inner sides of the pasted image i are inner_border from the
   lines x = cx / 2 and y = cy / 2 *)
AtCross(i, r, cx, cy) ==
    /\ IF i \in {0, 2} THEN cx - 2 * r.right = 2 * inner_border
                         ELSE 2 * r.left - cx = 2 * inner_border
    /\ IF i \in {0, 1} THEN cy - 2 * r.bottom = 2 * inner_border
                         ELSE 2 * r.top - cy = 2 * inner_border

(* C12 as it is stated: the pasted rectangles are pairwise disjoint, each
   inside its quadrant, 50 pixels or more from the edges of the composite
   and exactly 20 pixels from the centre lines x = W / 2 and y = H / 2. *)
C12_CentreLines ==
    /\ \A i, j \in 1..Len(rects) : i # j => Disjoint(rects[i], rects[j])
    /\ \A i \in 1..Len(rects) :
          /\ InQuadrant(i - 1, rects[i], pic_size[1], pic_size[2])
          /\ AtCross(i - 1, rects[i], pic_size[1], pic_size[2])

(* C12, amended: the pasted rectangles are pairwise disjoint, each inside
   its quadrant, 50 pixels or more from the edges of the composite and
   exactly 20 pixels from the lines x = int(W / 2) and y = int(H / 2),
   which are the centre lines when W and H are even. *)
C12_QuadrantLines ==
    /\ \A i, j \in 1..Len(rects) : i # j => Disjoint(rects[i], rects[j])
    /\ \A i \in 1..Len(rects) :
          /\ InQuadrant(i - 1, rects[i], 2 * ThumbBox(pic_size)[1], 2 * ThumbBox(pic_size)[2])
          /\ AtCross(i - 1, rects[i], 2 * ThumbBox(pic_size)[1], 2 * ThumbBox(pic_size)[2])

(* four pictures of the camera's size are pasted on a composite of odd
   width and height, each scaled down to 15 x 10 *)
C12_Witness ==
    /\ pic_size = <<201, 161>>
    /\ Len(rects) = 4
    /\ \A i \in 1..4 : input_sizes[i] = <<4752, 3168>>
    /\ rects[4] = [left |-> 120, top |-> 100, right |-> 135, bottom |-> 110]

(* C13: a mouse click, whatever its button and position, starts neither
   a session nor the teardown: its dispatch takes it from the pending
   events and leaves the lamp, the session state and the other pending
   events as they are. *)
C13_MouseClickIgnored ==
    /\ [][Dispatch /\ Head(queue).type = 2
            => /\ pc' = pc
               /\ lamp' = lamp
               /\ queue' = Tail(queue)
               /\ UNCHANGED <<locals, observed, teardowns, screen>>]_vars
    /\ [][pc = "poll" /\ pc' \in {"take_picture", "teardown"}
            => Head(queue).type # 2]_vars

(* the one event delivered has left the pending events, the controller
   is polling, and neither a session (the clock stands at 0) nor a
   teardown has run: a dispatched click *)
C13_Witness ==
    /\ pc = "poll"
    /\ inputs = 1
    /\ queue = <<>>
    /\ slideTic = 0
    /\ teardowns = 0
    /\ screen.kind = "slideshow"

(* C14 as it is stated: no preview tick begins when the time since tic
   is already seconds or more. *)
C14_NoLateTick ==
    \A k \in 1..Len(starts) : starts[k] < Seconds(seconds)

(* C14, amended: the loop ends once the clamped time toc is seconds or
   more; toc is never ahead of the time since tic, so seconds or more have
   passed when the loop ends, and a tick begins after seconds have passed
   only when an earlier preview took more than a second. *)
C14_ClampedExit ==
    /\ pc = "counter_while" => counter_toc <= now - counter_tic
    /\ pc = "attempt" /\ has_preview
          => /\ counter_toc >= Seconds(seconds)
             /\ now - counter_tic >= Seconds(seconds)
    /\ \A k \in 1..Len(starts) :
          starts[k] >= Seconds(seconds)
             => \E j \in 1..(k - 1) : starts[j + 1] - starts[j] > Seconds(1)

(* show_counter(3) has returned, and its last tick began 3 seconds or
   more after tic *)
C14_Witness ==
    /\ pc = "attempt"
    /\ has_preview
    /\ seconds = pose_time
    /\ Len(starts) > 0
    /\ starts[Len(starts)] >= Seconds(seconds)

(* C15: the number over the preview starts at seconds, stays in
   1..seconds, never goes up and goes down by at most 1 from one tick to
   the next; the loop makes seconds ticks or more and every number from
   seconds down to 1 is shown. *)
C15_NoNumberSkipped ==
    /\ Len(numbers) > 0 => numbers[1] = seconds
    /\ \A k \in 1..Len(numbers) : numbers[k] \in 1..seconds
    /\ \A k \in 1..(Len(numbers) - 1) :
          numbers[k + 1] \in {numbers[k], numbers[k] - 1}
    /\ pc = "attempt"
          => /\ Len(numbers) >= seconds
             /\ {numbers[k] : k \in 1..Len(numbers)} = 1..seconds

(* show_counter(3) has returned after previews that took more than two
   seconds each: three ticks, the numbers 3, 2, 1 *)
C15_Witness ==
    /\ pc = "attempt"
    /\ has_preview
    /\ numbers = <<3, 2, 1>>
    /\ now - counter_tic > Seconds(6)

(* C16: a session goes lamp off and pose message, then for each shot a
   countdown and the attempts for that shot, then the wait message and the
   assembly, the composite, lamp on and the drain of the queue; an attempt
   for a shot is made only when the shots before it are captured, a
   countdown begins only at the start of a shot, and assemble_pictures is
   called once, with the four captured names. *)
C16_SessionOrder ==
    /\ [](pc \in {"attempt", "capture"} => Len(captured) = x)
    /\ [](pc \in {"assemble", "show", "finish"} => Len(captured) = 4)
    /\ [][pc' # pc /\ pc \in SessionPcs /\ pc' # "raised" /\ ~Ends
            => \/ /\ pc = "take_picture" /\ pc' = "countdown"
                  /\ lamp' = 0 /\ screen'.msg = "POSE!\n\nFour pictures..."
                  /\ x' = 0 /\ captured' = <<>>
               \/ pc = "countdown" /\ pc' = "attempt" /\ screen'.kind = "counter"
               \/ pc = "attempt" /\ pc' = "capture" /\ attempts' = attempts
               \/ pc = "capture" /\ pc' = "pad" /\ attempts' = attempts + 1
               \/ pc = "pad" /\ pc' = "attempt" /\ ~Captured /\ x' = x
               \/ pc = "pad" /\ pc' = "countdown" /\ Captured /\ x' = x + 1
               \/ pc = "pad" /\ pc' = "assemble" /\ Captured /\ x = 3
               \/ /\ pc = "assemble" /\ pc' = "show"
                  /\ screen' = Message("Please wait!")
                  /\ assembled' = <<captured>>
               \/ pc = "show" /\ pc' = "finish" /\ screen' = Screen("picture", "", 0, outfile)
               \/ pc = "finish" /\ pc' = "poll" /\ lamp' = 1 /\ queue' = <<>>]_vars

(* the fourth shot was captured at its second attempt and the composite
   is assembled *)
C16_Witness ==
    /\ pc = "show"
    /\ retries = 1
    /\ attempts = 2
    /\ Len(assembled) = 1

(* C17: teardown shows the shutdown message, then sets the lamp to 0,
   then releases the display, then the GPIO, then tries to remove every
   file the glob matched, whether or not an os.remove raises OSError, and
   then exits with code 0, the lamp off. *)
C17_TeardownOrder ==
    /\ [][pc' # pc /\ pc \in TeardownPcs /\ ~Ends
            => \/ /\ pc = "teardown" /\ pc' = "teardown_lamp"
                  /\ screen' = Message("Shutting down...")
                  /\ display_open' /\ gpio_open'
               \/ /\ pc = "teardown_lamp" /\ pc' = "teardown_display"
                  /\ lamp' = 0
                  /\ display_open' /\ gpio_open'
               \/ /\ pc = "teardown_display" /\ pc' = "teardown_gpio"
                  /\ ~display_open' /\ gpio_open'
               \/ /\ pc = "teardown_gpio" /\ pc' = "remove_tempfiles"
                  /\ ~gpio_open'
                  /\ tried' = {} /\ tempfiles' = tempfiles
               \/ /\ pc = "remove_tempfiles" /\ pc' = "remove"
                  /\ to_remove' = TempGlob(tempfiles)
               \/ /\ pc = "remove" /\ pc' = "raised"
                  /\ exc' = SystemExit
                  /\ to_remove = {}
         ]_vars
    /\ [][pc = "remove" /\ pc' = "remove"
            => /\ tried' \cup to_remove' = tried \cup to_remove
               /\ tempfiles \ tempfiles' \subseteq tried']_vars
    /\ [](pc = "remove" => TempGlob(tempfiles) \subseteq tried \cup to_remove)
    /\ [](pc = "raised" /\ exc = SystemExit
            => /\ lamp = 0
               /\ ~display_open /\ ~gpio_open
               /\ TempGlob(tempfiles) \subseteq tried)
    /\ [][pc = "raised" /\ exc = SystemExit /\ pc' # pc
            => pc' = "exited" /\ exitCode' = 0 /\ lamp' = 0]_vars

(* the process has exited with code 0; os.remove was called for both
   files of the glob, raised OSError for the preview and removed the other *)
C17_Witness ==
    /\ pc = "exited"
    /\ exitCode = 0
    /\ lamp = 0
    /\ tried = {PreviewFile, TempFile("photobooth", "00", "jpg")}
    /\ TempGlob(tempfiles) = {PreviewFile}

(* C18: while take_picture runs, an event that arrives only joins the
   pending events: none is taken from them before the drain at the end of
   take_picture, take_picture is called only from the polling loop, and no
   teardown starts during a session. *)
C18_NoReentry ==
    /\ [][pc' # pc /\ pc' \in {"take_picture", "teardown"} => pc = "poll"]_vars
    /\ [][InSession /\ ~Ends
            => /\ pc' \in SessionPcs \cup {"raised", "poll"}
               /\ pc' = "poll" => pc = "finish"
               /\ teardowns' = teardowns
               /\ \/ queue' = queue
                  \/ \E e \in Events : queue' = Append(queue, e)
                  \/ pc = "finish" /\ pc' = "poll" /\ queue' = <<>>
         ]_vars

(* a shutdown event of the GPIO arrived during the session and is
   pending while the camera takes the third shot *)
C18_Witness ==
    /\ pc = "capture"
    /\ x = 2
    /\ sessionQueued = 1
    /\ queue = << [type |-> 3, value |-> gpio_shutdown_channel] >>

(* C19: the lamp is on whenever the controller is in the idle loop, also
   after a session that an error ended; it is off from the first
   statement of take_picture until the composite has been shown, and
   after an abort until the error message has been shown. *)
C19_LampInvariant ==
    /\ pc \in {"slideshow", "poll"} => lamp = 1
    /\ pc \in SessionPcs \ {"take_picture"} => lamp = 0
    /\ pc = "raised" /\ filenames # <<>> => lamp = 0
    /\ pc = "run" /\ screen.kind = "error" /\ screen.msg = GivingUpMessage => lamp = 0

(* the idle loop after a session was given up: the error message is still
   on the screen and the lamp is on again *)
C19_Witness ==
    /\ pc = "slideshow"
    /\ screen = ErrorScreen(GivingUpMessage)
    /\ lamp = 1

(* C20: a session that has started ends and the controller polls the
   idle loop again; the camera is called at most 3 times for each shot
   and so at most 12 times in a session, at most 2 error messages are
   shown before retries of a shot, and after an abort the controller goes
   back to the idle loop without calling take_picture again. *)
C20_SessionEnds ==
    /\ InSession ~> pc = "poll"
    /\ [](session_attempts <= 3 * x + attempts /\ attempts <= 3 /\ x <= 3)
    /\ [](session_attempts <= 12)
    /\ [](retries <= 2)
    /\ [][pc' # pc /\ pc \in {"raised", "run", "slideshow"}
            => /\ pc' \in {"run", "slideshow", "poll"}
               /\ session_attempts' = 0]_vars

(* each of the four shots was captured at the third attempt: the camera
   has been called 12 times and the composite is on the screen *)
C20_Witness ==
    /\ pc = "finish"
    /\ session_attempts = 12
    /\ retries = 2

====
